---- MODULE Spec2Model ----
(***************************************************************************)
(* Group reconstruction and derived variables of the Lumiere dashboard     *)
(* (src/utils/group_reconstruction.py, src/utils/data_processing.py).      *)
(*                                                                         *)
(* Representation of Python values                                        *)
(*   None / NaN / absent      the empty set {}                             *)
(*   a present value x        the singleton {x}                            *)
(*   a float confidence c     the integer 10*c (1.0 is 10, 0.9 is 9, ...)   *)
(*   a float quotient a / b   the fraction [num |-> a, den |-> b]          *)
(*   the value of a field `p` a tagged record (int, digit string, text)    *)
(***************************************************************************)
EXTENDS Integers, Sequences, FiniteSets, TLC

VARIABLES sessions, df, stage, signals, result, events, metrics, ts, epoch, csv, arg

vars == <<sessions, df, stage, signals, result, events, metrics, ts, epoch, csv, arg>>

----------------------------------------------------------------------------
(* Optional values *)

None == {}

Some(x) == {x}

Get(o) == CHOOSE x \in o : TRUE

(* pd.notna / pd.isna on a scalar *)
notna(o) == o # None

isna(o) == o = None

----------------------------------------------------------------------------
(* Values of the loosely typed event field `p` *)

NoVal == [tag |-> "none"]

IntVal(n) == [tag |-> "int", val |-> n]

(* a str made of decimal digits, most significant first *)
DigitsVal(ds) == [tag |-> "digits", val |-> ds]

(* any other str *)
TextVal(s) == [tag |-> "text", val |-> s]

(* Python truthiness, as tested by `if product_id:` *)
Truthy(p) ==
    CASE p.tag = "none" -> FALSE
      [] p.tag = "int" -> p.val # 0
      [] p.tag = "digits" -> Len(p.val) > 0
      [] p.tag = "text" -> p.val # ""

RECURSIVE ParseDigits(_, _)
ParseDigits(ds, acc) ==
    IF ds = <<>> THEN acc ELSE ParseDigits(Tail(ds), 10 * acc + Head(ds))

(* int(product_id) under try/except (ValueError, TypeError): the integer,  *)
(* or None when the conversion raises                                      *)
IntCoerce(p) ==
    CASE p.tag = "int" -> Some(p.val)
      [] p.tag = "digits" -> IF Len(p.val) > 0 THEN Some(ParseDigits(p.val, 0)) ELSE None
      [] OTHER -> None

(* the test that event.get("p") is the page `name` *)
IsPage(p, name) == p.tag = "text" /\ p.val = name

----------------------------------------------------------------------------
(* Product id sets, group_reconstruction.py:7-9 *)

LOW_VARIETY_PRODUCTS == {1, 6, 10, 11, 14}

HIGH_VARIETY_PRODUCTS == 1..15

(* mutant of HIGH_VARIETY_EXCLUSIVE: product 2 is missing from the set *)
HIGH_VARIETY_EXCLUSIVE_Without2 == {3, 4, 5, 7, 8, 9, 12, 13, 15}

HIGH_VARIETY_EXCLUSIVE == {2, 3, 4, 5, 7, 8, 9, 12, 13, 15}

----------------------------------------------------------------------------
(* get_reconstruction_signals *)

EmptySignals ==
    [has_ar_events |-> FALSE,
     ar_event_count |-> 0,
     has_high_variety_exclusive |-> FALSE,
     high_variety_exclusive_products |-> {},
     unique_products_viewed |-> {},
     scroll_time_after_gallery |-> None,
     gallery_view_time |-> None,
     scroll_to_bottom_time |-> None,
     group_from_event |-> None]

(* the body of `if product_id: try: ... except: pass` *)
TrackProduct(s, p) ==
    IF Truthy(p) /\ IntCoerce(p) # None
    THEN LET pid == Get(IntCoerce(p))
             s1 == [s EXCEPT !.unique_products_viewed = @ \cup {pid}]
         IN  IF pid \in HIGH_VARIETY_EXCLUSIVE
             THEN [s1 EXCEPT !.has_high_variety_exclusive = TRUE,
                             !.high_variety_exclusive_products = @ \cup {pid}]
             ELSE s1
    ELSE s

(* one iteration of `for event in events` *)
ScanEvent(s, event) ==
    LET event_type == event.e
        timestamp == event.t
        s1 == IF event_type \in {"ar_start", "ar_end"}
              THEN [s EXCEPT !.has_ar_events = TRUE, !.ar_event_count = @ + 1]
              ELSE s
        s2 == IF event_type = "group_assigned"
              THEN [s1 EXCEPT !.group_from_event = event.v]
              ELSE s1
        s3 == IF event_type = "view_page" /\ IsPage(event.p, "gallery")
              THEN [s2 EXCEPT !.gallery_view_time = timestamp]
              ELSE s2
        s4 == IF event_type = "scroll_to_bottom"
              THEN [s3 EXCEPT !.scroll_to_bottom_time = timestamp]
              ELSE s3
        s5 == IF event_type = "view" THEN TrackProduct(s4, event.p) ELSE s4
    IN  IF event_type \in {"cart_add_detail", "cart_add_gallery", "cart_remove"}
        THEN TrackProduct(s5, event.p)
        ELSE s5

RECURSIVE ScanEvents(_, _)
ScanEvents(s, evs) ==
    IF evs = <<>> THEN s ELSE ScanEvents(ScanEvent(s, Head(evs)), Tail(evs))

(* mutant of ScrollTiming: the difference is left in milliseconds *)
ScrollTiming_NoDivide(s) ==
    IF s.gallery_view_time # None /\ s.scroll_to_bottom_time # None
    THEN [s EXCEPT !.scroll_time_after_gallery =
            Some([num |-> Get(s.scroll_to_bottom_time) - Get(s.gallery_view_time),
                  den |-> 1])]
    ELSE s

(* "Calculate scroll timing": (scroll_to_bottom_time - gallery_view_time) / 1000 *)
ScrollTiming(s) ==
    IF s.gallery_view_time # None /\ s.scroll_to_bottom_time # None
    THEN [s EXCEPT !.scroll_time_after_gallery =
            Some([num |-> Get(s.scroll_to_bottom_time) - Get(s.gallery_view_time),
                  den |-> 1000])]
    ELSE s

(* `not events`: the list is None or empty *)
NotEvents(evs) == evs = None \/ Get(evs) = <<>>

get_reconstruction_signals(evs) ==
    IF NotEvents(evs)
    THEN EmptySignals
    ELSE ScrollTiming(ScanEvents(EmptySignals, Get(evs)))

----------------------------------------------------------------------------
(* reconstruct_group: (group_number, method_used, confidence) *)

(* scroll_time < k and scroll_time > k for a fraction with den > 0 *)
FracLess(q, k) == q.num < k * q.den

FracGreater(q, k) == q.num > k * q.den

(* mutant of ArLowVariety: the two confidences exchanged *)
ArLowVariety_Swapped(product_count) ==
    IF product_count > 0
    THEN <<Some(2), "ar_events + no_high_variety_products", 7>>
    ELSE <<Some(2), "ar_events_only", 9>>

(* "AR events + low variety only": has_ar and not has_high_variety *)
ArLowVariety(product_count) ==
    IF product_count > 0
    THEN <<Some(2), "ar_events + no_high_variety_products", 9>>
    ELSE <<Some(2), "ar_events_only", 7>>

(* mutant of ScrollRule: scroll_time <= 3.0 for the fast scroll *)
ScrollRule_Inclusive(scroll_time) ==
    IF scroll_time # None /\ ~FracGreater(Get(scroll_time), 3)
    THEN <<Some(1), "fast_scroll_time", 6>>
    ELSE IF scroll_time # None /\ FracGreater(Get(scroll_time), 6)
    THEN <<Some(3), "slow_scroll_time", 5>>
    ELSE <<None, "insufficient_signals", 0>>

(* mutant of ScrollRule: `else` in place of `elif scroll_time > 6.0` *)
ScrollRule_ElseSlow(scroll_time) ==
    IF scroll_time # None /\ FracLess(Get(scroll_time), 3)
    THEN <<Some(1), "fast_scroll_time", 6>>
    ELSE IF scroll_time # None
    THEN <<Some(3), "slow_scroll_time", 5>>
    ELSE <<None, "insufficient_signals", 0>>

(* "Use scroll timing as indicator", then "Cannot determine with confidence" *)
ScrollRule(scroll_time) ==
    IF scroll_time # None /\ FracLess(Get(scroll_time), 3)
    THEN <<Some(1), "fast_scroll_time", 6>>
    ELSE IF scroll_time # None /\ FracGreater(Get(scroll_time), 6)
    THEN <<Some(3), "slow_scroll_time", 5>>
    ELSE <<None, "insufficient_signals", 0>>

(* mutant of WeakRules: product_count >= 5 *)
WeakRules_AtLeast5(product_count, scroll_time) ==
    IF product_count >= 5
    THEN <<Some(3), "product_count_exceeds_5", 8>>
    ELSE ScrollRule(scroll_time)

(* "Use product count as indicator", then the scroll rule *)
WeakRules(product_count, scroll_time) ==
    IF product_count > 5
    THEN <<Some(3), "product_count_exceeds_5", 8>>
    ELSE ScrollRule(scroll_time)

(* mutant of SignalRules: the AR rule does not look at the exclusive products *)
SignalRules_ArFirst(has_ar, has_high_variety, product_count, scroll_time) ==
    IF has_ar
    THEN ArLowVariety(product_count)
    ELSE IF has_high_variety
    THEN <<Some(3), "high_variety_products + no_ar", 10>>
    ELSE WeakRules(product_count, scroll_time)

(* mutant of SignalRules: the weak rules are consulted before the exclusive products *)
SignalRules_WeakFirst(has_ar, has_high_variety, product_count, scroll_time) ==
    IF has_ar /\ has_high_variety
    THEN <<Some(4), "ar_events + high_variety_products", 10>>
    ELSE IF has_ar /\ ~has_high_variety
    THEN ArLowVariety(product_count)
    ELSE IF WeakRules(product_count, scroll_time)[1] # None
    THEN WeakRules(product_count, scroll_time)
    ELSE IF has_high_variety /\ ~has_ar
    THEN <<Some(3), "high_variety_products + no_ar", 10>>
    ELSE WeakRules(product_count, scroll_time)

(* the rules that follow the group_assigned rule *)
SignalRules(has_ar, has_high_variety, product_count, scroll_time) ==
    IF has_ar /\ has_high_variety
    THEN <<Some(4), "ar_events + high_variety_products", 10>>
    ELSE IF has_ar /\ ~has_high_variety
    THEN ArLowVariety(product_count)
    ELSE IF has_high_variety /\ ~has_ar
    THEN <<Some(3), "high_variety_products + no_ar", 10>>
    ELSE WeakRules(product_count, scroll_time)

(* mutant of reconstruct_group: group_from_event is consulted after the signals *)
reconstruct_group_EventLast(s) ==
    LET r == SignalRules(s.has_ar_events,
                         s.has_high_variety_exclusive,
                         Cardinality(s.unique_products_viewed),
                         s.scroll_time_after_gallery)
    IN  IF r[1] # None THEN r
        ELSE IF s.group_from_event # None
        THEN <<s.group_from_event, "group_assigned_event", 10>>
        ELSE r

reconstruct_group(s) ==
    IF s.group_from_event # None
    THEN <<s.group_from_event, "group_assigned_event", 10>>
    ELSE SignalRules(s.has_ar_events,
                     s.has_high_variety_exclusive,
                     Cardinality(s.unique_products_viewed),
                     s.scroll_time_after_gallery)

----------------------------------------------------------------------------
(* reconstruct_groups: one result per row of the table *)

(* row.get("events", []) or [] *)
EventsOrEmpty(evs) == IF NotEvents(evs) THEN Some(<<>>) ELSE evs

(* mutant of ReconstructRow: the reconstructed group is preferred to the explicit one *)
ReconstructRow_PreferReconstructed(row) ==
    LET sig == get_reconstruction_signals(EventsOrEmpty(row.events))
        r == reconstruct_group(sig)
    IN  [group_reconstructed |-> r[1],
         group_final |-> IF notna(r[1]) THEN r[1] ELSE row.group,
         reconstruction_method |-> IF isna(row.group) THEN r[2] ELSE "original",
         reconstruction_confidence |-> IF isna(row.group) THEN r[3] ELSE 10,
         reconstruction_signals |-> sig]

(* mutant of ReconstructRow: group_final is the explicit group, with no fallback *)
ReconstructRow_NoFallback(row) ==
    LET sig == get_reconstruction_signals(EventsOrEmpty(row.events))
        r == reconstruct_group(sig)
    IN  [group_reconstructed |-> r[1],
         group_final |-> row.group,
         reconstruction_method |-> IF isna(row.group) THEN r[2] ELSE "original",
         reconstruction_confidence |-> IF isna(row.group) THEN r[3] ELSE 10,
         reconstruction_signals |-> sig]

(* mutant of ReconstructRow: a stored group_reconstructed is kept *)
ReconstructRow_KeepStored(row) ==
    LET sig == get_reconstruction_signals(EventsOrEmpty(row.events))
        r == reconstruct_group(sig)
        reconstructed == IF notna(row.group_reconstructed) THEN row.group_reconstructed ELSE r[1]
    IN  [group_reconstructed |-> reconstructed,
         group_final |-> IF notna(row.group) THEN row.group ELSE reconstructed,
         reconstruction_method |-> IF isna(row.group) THEN r[2] ELSE "original",
         reconstruction_confidence |-> IF isna(row.group) THEN r[3] ELSE 10,
         reconstruction_signals |-> sig]

(* mutant of ReconstructRow: the explicit group is read from group_final once *)
(* that column exists                                                        *)
ReconstructRow_ReadsGroupFinal(row) ==
    LET sig == get_reconstruction_signals(EventsOrEmpty(row.events))
        original_group == IF "group_final" \in DOMAIN row THEN row.group_final ELSE row.group
        r == reconstruct_group(sig)
    IN  [group_reconstructed |-> r[1],
         group_final |-> IF notna(original_group) THEN original_group ELSE r[1],
         reconstruction_method |-> IF isna(original_group) THEN r[2] ELSE "original",
         reconstruction_confidence |-> IF isna(original_group) THEN r[3] ELSE 10,
         reconstruction_signals |-> sig]

(* the loop body of reconstruct_groups: the result dict of one row *)
ReconstructRow(row) ==
    LET evs == EventsOrEmpty(row.events)
        original_group == row.group
        sig == get_reconstruction_signals(evs)
        r == reconstruct_group(sig)
        reconstructed == r[1]
        method == r[2]
        confidence == r[3]
    IN  [group_reconstructed |-> reconstructed,
         group_final |-> IF notna(original_group) THEN original_group ELSE reconstructed,
         reconstruction_method |-> IF isna(original_group) THEN method ELSE "original",
         reconstruction_confidence |-> IF isna(original_group) THEN confidence ELSE 10,
         reconstruction_signals |-> sig]

(* mutant of CallerTable: the columns are written into the caller's table *)
CallerTable_Aliased(d, written) == written

(* df = df.copy(): the function writes into its copy, and the table object *)
(* of the caller keeps its columns and cells                               *)
CallerTable(d, written) == d

(* mutant of reconstruct_groups: the result of the first row is written *)
(* into every row                                                      *)
reconstruct_groups_FirstRowForAll(d) ==
    IF d.rows = <<>>
    THEN d
    ELSE [columns |-> d.columns \cup DOMAIN ReconstructRow(d.rows[1]),
          rows |-> [i \in DOMAIN d.rows |-> ReconstructRow(d.rows[1]) @@ d.rows[i]]]

(* df = df.copy(); every column of the results is written into the copy *)
reconstruct_groups(d) ==
    IF d.rows = <<>>
    THEN d
    ELSE [columns |-> d.columns \cup DOMAIN ReconstructRow(d.rows[1]),
          rows |-> [i \in DOMAIN d.rows |-> ReconstructRow(d.rows[i]) @@ d.rows[i]]]

----------------------------------------------------------------------------
(* firestore_timestamp_to_datetime *)

(* a quotient n / d of the float arithmetic *)
Frac(n, d) == [num |-> n, den |-> d]

NanosPerSecond == 1000000000

(* the value of one key of a mapping: the key is absent, or it holds null, *)
(* a text, or a number                                                    *)
Absent == [k |-> "absent"]
Null == [k |-> "null"]
Text == [k |-> "text"]
Num(n) == [k |-> "num", n |-> n]

(* dict.get(key, default): the default is used for an absent key only *)
DictGet(field, default) == IF field.k = "absent" THEN default ELSE field

(* the shapes of a timestamp value *)
NullTs == [kind |-> "null"]
DictTs(s1, s2, n1, n2) ==
    [kind |-> "dict", _seconds |-> s1, seconds |-> s2, _nanoseconds |-> n1, nanoseconds |-> n2]
NativeTs(sec, nano) == [kind |-> "native", sec |-> sec, nano |-> nano]
OtherTs == [kind |-> "other"]

(* the outcome of a call: a returned value, or a TypeError *)
EpochOf(v) == [raised |-> FALSE, value |-> v]
EpochRaised == [raised |-> TRUE, value |-> None]
NoEpoch == EpochOf(None)

(* seconds + nanoseconds / 1e9 raises TypeError unless both are numbers *)
EpochOfParts(seconds, nanoseconds) ==
    IF seconds.k = "num" /\ nanoseconds.k = "num"
    THEN EpochOf(Some(Frac(seconds.n * NanosPerSecond + nanoseconds.n, NanosPerSecond)))
    ELSE EpochRaised

firestore_timestamp_to_datetime(t) ==
    IF t.kind = "null"
    THEN EpochOf(None)
    ELSE IF t.kind = "dict"
    THEN EpochOfParts(DictGet(t._seconds, DictGet(t.seconds, Num(0))),
                      DictGet(t._nanoseconds, DictGet(t.nanoseconds, Num(0))))
    ELSE IF t.kind = "native"
    THEN EpochOf(Some(Frac(t.sec * NanosPerSecond + t.nano, NanosPerSecond)))
    ELSE EpochOf(None)

----------------------------------------------------------------------------
(* sessions_to_dataframe *)

EmptyDataFrame == [columns |-> {}, rows |-> <<>>]

(* survey = session.get("survey", {}) or {}; survey.get("submitted_at") *)
SurveySubmittedAt(session) ==
    IF session.survey = None THEN NullTs ELSE Get(session.survey).submitted_at

(* a TypeError of a timestamp conversion leaves sessions_to_dataframe *)
SessionRaises(session) ==
    \/ firestore_timestamp_to_datetime(session.started_at).raised
    \/ firestore_timestamp_to_datetime(session.completed_at).raised
    \/ firestore_timestamp_to_datetime(SurveySubmittedAt(session)).raised

(* pd.to_datetime(unit="s", errors="coerce"): epoch seconds become a count *)
(* of nanoseconds, None becomes NaT (None)                                 *)
to_datetime(x) ==
    IF x = None THEN None ELSE Some(Get(x).num * (NanosPerSecond \div Get(x).den))

(* the row dict of one session; a missing key reads as None, a missing *)
(* events key as the empty list                                        *)
SessionRow(session) ==
    [group |-> session.group,
     group_reconstructed |-> session.group_reconstructed,
     events |-> session.events,
     debug_mode |-> session.debug_mode,
     pid |-> session.pid,
     final_cart |-> session.final_cart,
     started_at |-> to_datetime(firestore_timestamp_to_datetime(session.started_at).value),
     completed_at |-> to_datetime(firestore_timestamp_to_datetime(session.completed_at).value),
     survey_submitted_at |->
        to_datetime(firestore_timestamp_to_datetime(SurveySubmittedAt(session)).value)]

(* merge_group_fields is imported from group_reconstruction but its body is  *)
(* not part of the sources; the call site says "use 'group' if present,     *)
(* else 'group_reconstructed'".  Both readings are kept: the merged label   *)
(* is written to `group` (fill), or to a column no modelled code reads.     *)
merge_group_fields(d, fill) ==
    IF fill
    THEN [d EXCEPT !.rows =
            [i \in DOMAIN d.rows |->
                [d.rows[i] EXCEPT !.group =
                    IF notna(@) THEN @ ELSE d.rows[i].group_reconstructed]]]
    ELSE d

sessions_to_dataframe(ss, fill) ==
    IF ss = <<>>
    THEN EmptyDataFrame
    ELSE merge_group_fields(
            [columns |-> DOMAIN SessionRow(ss[1]),
             rows |-> [i \in DOMAIN ss |-> SessionRow(ss[i])]], fill)

----------------------------------------------------------------------------
(* extract_event_metrics *)

(* x + y on fractions; equal denominators are kept *)
FracAdd(x, y) ==
    IF x.den = y.den
    THEN Frac(x.num + y.num, x.den)
    ELSE Frac(x.num * y.den + y.num * x.den, x.den * y.den)

RECURSIVE FracSum(_)
FracSum(qs) == IF qs = <<>> THEN Frac(0, 1) ELSE FracAdd(Head(qs), FracSum(Tail(qs)))

(* np.mean of a non-empty list *)
np_mean(qs) == Frac(FracSum(qs).num, FracSum(qs).den * Len(qs))

(* the record returned for `not events` *)
(* mutant of DefaultMetrics: the average of no AR session is 0 *)
DefaultMetrics_ZeroAverage ==
    [raised |-> FALSE,
     total_ar_time_sec |-> Frac(0, 1),
     ar_session_count |-> 0,
     unique_products_viewed |-> 0,
     cart_additions |-> 0,
     cart_removals |-> 0,
     page_views |-> 0,
     avg_ar_duration_sec |-> Some(Frac(0, 1)),
     total_ar_rotations |-> 0,
     total_ar_zooms |-> 0,
     time_on_gallery_sec |-> None,
     time_on_detail_sec |-> None,
     scrolled_to_bottom |-> FALSE]

DefaultMetrics ==
    [raised |-> FALSE,
     total_ar_time_sec |-> Frac(0, 1),
     ar_session_count |-> 0,
     unique_products_viewed |-> 0,
     cart_additions |-> 0,
     cart_removals |-> 0,
     page_views |-> 0,
     avg_ar_duration_sec |-> None,
     total_ar_rotations |-> 0,
     total_ar_zooms |-> 0,
     time_on_gallery_sec |-> None,
     time_on_detail_sec |-> None,
     scrolled_to_bottom |-> FALSE]

(* the call ended with an exception (TypeError) instead of a record *)
RaisedMetrics == [raised |-> TRUE]

(* the counters and locals before the loop *)
MetricsStart ==
    [raised |-> FALSE,
     total_ar_time_sec |-> Frac(0, 1),
     ar_session_count |-> 0,
     cart_additions |-> 0,
     cart_removals |-> 0,
     page_views |-> 0,
     total_ar_rotations |-> 0,
     total_ar_zooms |-> 0,
     scrolled_to_bottom |-> FALSE,
     products_viewed |-> {},
     ar_durations |-> <<>>,
     gallery_start |-> None,
     gallery_time |-> 0,
     detail_start |-> None,
     detail_time |-> 0,
     last_page |-> NoVal]

(* mutant of PageStep: a page entry does not restart an interval that is open *)
PageStep_FromFirstEntry(a, event) ==
    LET timestamp == event.t
        page == event.p
        a1 == [a EXCEPT !.page_views = @ + 1]
        a2 == IF IsPage(a.last_page, "gallery") /\ a.gallery_start # None
              THEN IF timestamp = None
                   THEN [a1 EXCEPT !.raised = TRUE]
                   ELSE [a1 EXCEPT !.gallery_time = @ + Get(timestamp) - Get(a.gallery_start)]
              ELSE IF IsPage(a.last_page, "detail") /\ a.detail_start # None
              THEN IF timestamp = None
                   THEN [a1 EXCEPT !.raised = TRUE]
                   ELSE [a1 EXCEPT !.detail_time = @ + Get(timestamp) - Get(a.detail_start)]
              ELSE a1
        a3 == IF IsPage(page, "gallery")
              THEN [a2 EXCEPT !.gallery_start = IF @ = None THEN timestamp ELSE @]
              ELSE IF IsPage(page, "detail")
              THEN [a2 EXCEPT !.detail_start = IF @ = None THEN timestamp ELSE @]
              ELSE [a2 EXCEPT !.gallery_start = None, !.detail_start = None]
    IN  IF a2.raised THEN a2 ELSE [a3 EXCEPT !.last_page = page]

(* "Page views and timing": timestamp - start raises TypeError on a null t *)
PageStep(a, event) ==
    LET timestamp == event.t
        page == event.p
        a1 == [a EXCEPT !.page_views = @ + 1]
        a2 == IF IsPage(a.last_page, "gallery") /\ a.gallery_start # None
              THEN IF timestamp = None
                   THEN [a1 EXCEPT !.raised = TRUE]
                   ELSE [a1 EXCEPT !.gallery_time = @ + Get(timestamp) - Get(a.gallery_start)]
              ELSE IF IsPage(a.last_page, "detail") /\ a.detail_start # None
              THEN IF timestamp = None
                   THEN [a1 EXCEPT !.raised = TRUE]
                   ELSE [a1 EXCEPT !.detail_time = @ + Get(timestamp) - Get(a.detail_start)]
              ELSE a1
        a3 == IF IsPage(page, "gallery")
              THEN [a2 EXCEPT !.gallery_start = timestamp]
              ELSE IF IsPage(page, "detail")
              THEN [a2 EXCEPT !.detail_start = timestamp]
              ELSE [a2 EXCEPT !.gallery_start = None, !.detail_start = None]
    IN  IF a2.raised THEN a2 ELSE [a3 EXCEPT !.last_page = page]

(* "Product views" *)
ViewStep(a, event) ==
    LET product_id == event.p
    IN  IF Truthy(product_id) /\ IntCoerce(product_id) # None
        THEN [a EXCEPT !.products_viewed = @ \cup {Get(IntCoerce(product_id))}]
        ELSE a

(* mutant of ArEndStep: the duration is added in milliseconds *)
ArEndStep_NoDivide(a, event) ==
    LET duration == event.d
        a1 == [a EXCEPT !.ar_session_count = @ + 1]
        a2 == IF duration # None /\ Get(duration) # 0
              THEN [a1 EXCEPT !.ar_durations = Append(@, Frac(Get(duration), 1)),
                              !.total_ar_time_sec = FracAdd(@, Frac(Get(duration), 1))]
              ELSE a1
    IN  IF event.rotations = None \/ event.zooms = None
        THEN [a2 EXCEPT !.raised = TRUE]
        ELSE [a2 EXCEPT !.total_ar_rotations = @ + Get(event.rotations),
                        !.total_ar_zooms = @ + Get(event.zooms)]

(* "AR events": += None raises TypeError on a null rotations or zooms *)
ArEndStep(a, event) ==
    LET duration == event.d
        a1 == [a EXCEPT !.ar_session_count = @ + 1]
        a2 == IF duration # None /\ Get(duration) # 0
              THEN [a1 EXCEPT !.ar_durations = Append(@, Frac(Get(duration), 1000)),
                              !.total_ar_time_sec = FracAdd(@, Frac(Get(duration), 1000))]
              ELSE a1
    IN  IF event.rotations = None \/ event.zooms = None
        THEN [a2 EXCEPT !.raised = TRUE]
        ELSE [a2 EXCEPT !.total_ar_rotations = @ + Get(event.rotations),
                        !.total_ar_zooms = @ + Get(event.zooms)]

(* "Cart actions" and "Scroll" *)
CartScrollStep(a, event) ==
    LET a1 == IF event.e \in {"cart_add_detail", "cart_add_gallery"}
              THEN [a EXCEPT !.cart_additions = @ + 1]
              ELSE a
        a2 == IF event.e = "cart_remove" THEN [a1 EXCEPT !.cart_removals = @ + 1] ELSE a1
    IN  IF event.e = "scroll_to_bottom" THEN [a2 EXCEPT !.scrolled_to_bottom = TRUE] ELSE a2

(* one iteration of `for event in events`; nothing runs after an exception *)
MetricsEvent(a, event) ==
    LET a1 == IF event.e = "view_page" THEN PageStep(a, event) ELSE a
        a2 == IF event.e = "view" THEN ViewStep(a1, event) ELSE a1
        a3 == IF event.e = "ar_end" THEN ArEndStep(a2, event) ELSE a2
    IN  IF a.raised THEN a
        ELSE IF a1.raised THEN a1
        ELSE IF a3.raised THEN a3
        ELSE CartScrollStep(a3, event)

RECURSIVE MetricsScan(_, _)
MetricsScan(a, evs) ==
    IF evs = <<>> THEN a ELSE MetricsScan(MetricsEvent(a, Head(evs)), Tail(evs))

(* the four values computed after the loop, and the returned record *)
MetricsResult(a) ==
    IF a.raised
    THEN RaisedMetrics
    ELSE [raised |-> FALSE,
          total_ar_time_sec |-> a.total_ar_time_sec,
          ar_session_count |-> a.ar_session_count,
          unique_products_viewed |-> Cardinality(a.products_viewed),
          cart_additions |-> a.cart_additions,
          cart_removals |-> a.cart_removals,
          page_views |-> a.page_views,
          avg_ar_duration_sec |->
              IF a.ar_durations # <<>> THEN Some(np_mean(a.ar_durations)) ELSE None,
          total_ar_rotations |-> a.total_ar_rotations,
          total_ar_zooms |-> a.total_ar_zooms,
          time_on_gallery_sec |->
              IF a.gallery_time > 0 THEN Some(Frac(a.gallery_time, 1000)) ELSE None,
          time_on_detail_sec |->
              IF a.detail_time > 0 THEN Some(Frac(a.detail_time, 1000)) ELSE None,
          scrolled_to_bottom |-> a.scrolled_to_bottom]

extract_event_metrics(evs) ==
    IF NotEvents(evs) THEN DefaultMetrics ELSE MetricsResult(MetricsScan(MetricsStart, Get(evs)))

----------------------------------------------------------------------------
(* create_derived_variables *)

(* lambda g: "low" if g in [1, 2] else ("high" if g in [3, 4] else None) *)
VarietyOf(g) ==
    IF g \in {Some(1), Some(2)} THEN Some("low")
    ELSE IF g \in {Some(3), Some(4)} THEN Some("high") ELSE None

(* lambda g: True if g in [2, 4] else (False if g in [1, 3] else None) *)
ArEnabledOf(g) ==
    IF g \in {Some(2), Some(4)} THEN Some(TRUE)
    ELSE IF g \in {Some(1), Some(3)} THEN Some(FALSE) ELSE None

(* mutant of SecondsBetween: a missing time counts as the epoch *)
SecondsBetween_MissingIsEpoch(later, earlier) ==
    Some(Frac((IF later = None THEN 0 ELSE Get(later))
                - (IF earlier = None THEN 0 ELSE Get(earlier)), NanosPerSecond))

(* (later - earlier).dt.total_seconds(): NaN when either time is NaT *)
SecondsBetween(later, earlier) ==
    IF later = None \/ earlier = None
    THEN None
    ELSE Some(Frac(Get(later) - Get(earlier), NanosPerSecond))

(* the columns of the record returned by extract_event_metrics *)
MetricsColumns(m) == [c \in DOMAIN m \ {"raised"} |-> m[c]]

(* the columns derived from one row *)
DerivedRow(row) ==
    [variety |-> VarietyOf(row.group),
     ar_enabled |-> ArEnabledOf(row.group),
     session_duration_sec |-> SecondsBetween(row.completed_at, row.started_at),
     time_to_survey_sec |-> SecondsBetween(row.survey_submitted_at, row.started_at)]
    @@ MetricsColumns(extract_event_metrics(row.events))

(* a TypeError of extract_event_metrics leaves create_derived_variables *)
DerivedRaises(d) == \E i \in DOMAIN d.rows : extract_event_metrics(d.rows[i].events).raised

create_derived_variables(d) ==
    [columns |-> d.columns \cup {"variety", "ar_enabled", "session_duration_sec",
                                 "time_to_survey_sec"}
                    \cup (DOMAIN DefaultMetrics \ {"raised"}),
     rows |-> [i \in DOMAIN d.rows |-> DerivedRow(d.rows[i]) @@ d.rows[i]]]

----------------------------------------------------------------------------
(* filter_sessions *)

(* df["session_duration_sec"] >= k and <= k on a quotient *)
FracAtLeast(q, k) == q.num >= k * q.den

FracAtMost(q, k) == q.num <= k * q.den

(* the mask of one row: a criterion counts when it is switched on and its *)
(* column exists; a comparison with NaN is False                          *)
(* kw holds the keyword arguments of the call                            *)
FilterMask(d, row, kw) ==
    /\ (kw.exclude_debug /\ "debug_mode" \in d.columns) => ~row.debug_mode
    /\ (kw.exclude_incomplete /\ "completed_at" \in d.columns) => notna(row.completed_at)
    /\ (kw.exclude_pids # None /\ Get(kw.exclude_pids) # {} /\ "pid" \in d.columns)
        => (row.pid = None \/ Get(row.pid) \notin Get(kw.exclude_pids))
    /\ (kw.min_session_duration # None /\ "session_duration_sec" \in d.columns)
        => /\ row.session_duration_sec # None
           /\ FracAtLeast(Get(row.session_duration_sec), Get(kw.min_session_duration))
    /\ (kw.max_session_duration # None /\ "session_duration_sec" \in d.columns)
        => /\ row.session_duration_sec # None
           /\ FracAtMost(Get(row.session_duration_sec), Get(kw.max_session_duration))

(* df[mask].copy() *)
filter_sessions(d, kw) ==
    LET Kept(row) == FilterMask(d, row, kw)
    IN  [columns |-> d.columns, rows |-> SelectSeq(d.rows, Kept)]

----------------------------------------------------------------------------
(* export_to_csv *)

(* mutant of columns_to_drop: final_cart stays in the export *)
columns_to_drop_EventsOnly(include_events) == IF include_events THEN {} ELSE {"events"}

columns_to_drop(include_events) == IF include_events THEN {} ELSE {"events", "final_cart"}

(* export_df.drop(columns=[col]) for every listed column that exists *)
DropColumns(d, cols) ==
    [columns |-> d.columns \ cols,
     rows |-> [i \in DOMAIN d.rows |->
                [c \in DOMAIN d.rows[i] \ cols |-> d.rows[i][c]]]]

(* the text of one cell: a missing value (None, printed {}) is the empty *)
(* field                                                               *)
CsvField(v) == IF ToString(v) = ToString(None) THEN "" ELSE ToString(v)

(* DataFrame.to_csv(index=False): the header and one line of fields per row *)
to_csv(d) ==
    [header |-> d.columns,
     lines |-> [i \in DOMAIN d.rows |->
                [c \in DOMAIN d.rows[i] |-> CsvField(d.rows[i][c])]]]

export_to_csv(d, include_events) == to_csv(DropColumns(d, columns_to_drop(include_events)))

(* no call of export_to_csv has returned yet *)
NoCsv == [called |-> FALSE]

----------------------------------------------------------------------------
(* Bounded inputs *)

MaxEvents == 2

(* an event as event.get reads it: a missing key `t`, `d`, `rotations` or    *)
(* `zooms` reads as 0, a missing `e` as "", a missing `p` or `v` as None; a  *)
(* key whose value is null reads as None                                    *)
Event(e, t, p, v, d, rotations, zooms) ==
    [e |-> e, t |-> t, p |-> p, v |-> v, d |-> d, rotations |-> rotations, zooms |-> zooms]

Ev(e, t, p, v) == Event(e, t, p, v, Some(0), Some(0), Some(0))

ArEnd(t, d, rotations, zooms) == Event("ar_end", t, NoVal, None, d, rotations, zooms)

EventPool ==
    {Ev("view_page", Some(0), TextVal("gallery"), None)}
    \cup {Ev("scroll_to_bottom", Some(t), NoVal, None) : t \in {2500, 7000}}
    \cup {Ev("view", Some(1000), p, None) :
            p \in {IntVal(3), IntVal(1), DigitsVal(<<1, 2>>), TextVal("abc")}}
    \cup {Ev("ar_start", Some(1500), NoVal, None), Ev("ar_end", Some(1800), NoVal, None)}
    \cup {Ev("cart_add_gallery", Some(2000), IntVal(6), None)}
    \cup {Ev("group_assigned", Some(100), NoVal, v) : v \in {None, Some(2), Some(7)}}

EventLists == UNION {[1..n -> EventPool] : n \in 0..MaxEvents}

(* sessions that hold no timestamp; the event list may be null *)
SessionPool ==
    [group : {None, Some(1), Some(2), Some(3), Some(4), Some(9)},
     group_reconstructed : {None, Some(1)},
     events : {None} \cup {Some(l) : l \in EventLists},
     started_at : {NullTs},
     completed_at : {NullTs},
     survey : {None},
     debug_mode : {FALSE},
     pid : {None},
     final_cart : {<<>>}]

(* the table of the pages holds any number of sessions; rows are handled one *)
(* by one, and the tables explored here hold no session or one             *)
SessionLists == {<<>>} \cup {<<s>> : s \in SessionPool}

NoResult == <<None, "", 0>>

(* no call of extract_event_metrics has returned yet *)
NoMetrics == [raised |-> FALSE, called |-> FALSE]

----------------------------------------------------------------------------
(* The page pipeline: sessions_to_dataframe, reconstruct_groups (Monitoring *)
(* page only), create_derived_variables                                     *)

Init ==
    /\ sessions \in SessionLists
    /\ df = EmptyDataFrame
    /\ stage = "raw"
    /\ signals = EmptySignals
    /\ result = NoResult
    /\ events = None
    /\ metrics = NoMetrics
    /\ ts = NullTs
    /\ epoch = NoEpoch
    /\ csv = NoCsv
    /\ arg = EmptyDataFrame

SessionsToDataframe ==
    /\ stage = "raw"
    /\ IF \E i \in DOMAIN sessions : SessionRaises(sessions[i])
       THEN df' = df /\ stage' = "raised"
       ELSE /\ \E fill \in BOOLEAN : df' = sessions_to_dataframe(sessions, fill)
            /\ stage' = "tabulated"
    /\ UNCHANGED <<sessions, signals, result, events, metrics, ts, epoch, csv, arg>>

ReconstructGroups ==
    /\ stage = "tabulated"
    /\ df' = reconstruct_groups(df)
    /\ arg' = CallerTable(df, reconstruct_groups(df))
    /\ stage' = "reconstructed"
    /\ UNCHANGED <<sessions, signals, result, events, metrics, ts, epoch, csv>>

(* df["group"] raises KeyError on the column-less table of an empty input *)
CreateDerivedVariables ==
    /\ stage \in {"tabulated", "reconstructed"}
    /\ IF "group" \in df.columns /\ ~DerivedRaises(df)
       THEN /\ df' = create_derived_variables(df)
            /\ arg' = CallerTable(df, create_derived_variables(df))
            /\ stage' = "derived"
       ELSE df' = df /\ arg' = df /\ stage' = "raised"
    /\ UNCHANGED <<sessions, signals, result, events, metrics, ts, epoch, csv>>

Next == SessionsToDataframe \/ ReconstructGroups \/ CreateDerivedVariables

Spec == Init /\ [][Next]_vars

(* the pipeline on sessions that hold timestamps *)

SessionTimes ==
    {NullTs, OtherTs, NativeTs(1, 0),
     DictTs(Num(0), Absent, Num(500000000), Absent),
     DictTs(Absent, Num(1), Absent, Absent),
     DictTs(Null, Absent, Absent, Absent)}

TimedSessionPool ==
    [group : {None, Some(1)},
     group_reconstructed : {None},
     events : {Some(<<>>)},
     started_at : SessionTimes,
     completed_at : SessionTimes,
     survey : {None} \cup {Some([submitted_at |-> t]) : t \in SessionTimes},
     debug_mode : {FALSE},
     pid : {None},
     final_cart : {<<>>}]

InitTimes ==
    /\ sessions \in {<<s>> : s \in TimedSessionPool}
    /\ df = EmptyDataFrame
    /\ stage = "raw"
    /\ signals = EmptySignals
    /\ result = NoResult
    /\ events = None
    /\ metrics = NoMetrics
    /\ ts = NullTs
    /\ epoch = NoEpoch
    /\ csv = NoCsv
    /\ arg = EmptyDataFrame

SpecTimes == InitTimes /\ [][Next]_vars

----------------------------------------------------------------------------
(* Tables of several sessions *)

MaxRows == 2

RowLists(pool) == UNION {[1..n -> pool] : n \in 0..MaxRows}

----------------------------------------------------------------------------
(* The pipeline on tables of several sessions *)

(* sessions with and without a group, with no event, a high-variety view *)
(* or an AR event, completed or not                                      *)
PairSessionPool ==
    [group : {None, Some(2)},
     group_reconstructed : {None},
     events : {Some(<<>>),
               Some(<<Ev("view", Some(1000), IntVal(3), None)>>),
               Some(<<Ev("ar_start", Some(1500), NoVal, None)>>)},
     started_at : {DictTs(Num(0), Absent, Num(0), Absent)},
     completed_at : {NullTs, NativeTs(1, 0)},
     survey : {None},
     debug_mode : {FALSE},
     pid : {None},
     final_cart : {<<>>}]

InitPairs ==
    /\ sessions \in RowLists(PairSessionPool)
    /\ df = EmptyDataFrame
    /\ stage = "raw"
    /\ signals = EmptySignals
    /\ result = NoResult
    /\ events = None
    /\ metrics = NoMetrics
    /\ ts = NullTs
    /\ epoch = NoEpoch
    /\ csv = NoCsv
    /\ arg = EmptyDataFrame

SpecPairs == InitPairs /\ [][Next]_vars

----------------------------------------------------------------------------
(* The Data Prep page: the table is filtered and exported; the functions *)
(* accept the table of any page                                          *)

(* sessions started at the epoch, with one viewed product; some are debug *)
(* sessions, some completed after one second, some carry a pid            *)
PrepSessionPool ==
    [group : {Some(1)},
     group_reconstructed : {None},
     events : {Some(<<Ev("view", Some(1000), IntVal(3), None)>>)},
     started_at : {DictTs(Num(0), Absent, Num(0), Absent)},
     completed_at : {NullTs, NativeTs(1, 0)},
     survey : {None},
     debug_mode : BOOLEAN,
     pid : {None, Some("p1")},
     final_cart : {<<3>>}]

InitPrep ==
    /\ sessions \in RowLists(PrepSessionPool)
    /\ df = EmptyDataFrame
    /\ stage = "raw"
    /\ signals = EmptySignals
    /\ result = NoResult
    /\ events = None
    /\ metrics = NoMetrics
    /\ ts = NullTs
    /\ epoch = NoEpoch
    /\ csv = NoCsv
    /\ arg = EmptyDataFrame

FilterSessions ==
    /\ stage \in {"tabulated", "reconstructed", "derived"}
    /\ \E kw \in [exclude_debug : BOOLEAN, exclude_incomplete : BOOLEAN,
                   exclude_pids : {None, Some({"p1"})},
                   min_session_duration : {None, Some(1)},
                   max_session_duration : {None, Some(0)}] :
            df' = filter_sessions(df, kw)
    /\ arg' = df
    /\ stage' = "filtered"
    /\ UNCHANGED <<sessions, signals, result, events, metrics, ts, epoch, csv>>

ExportToCsv ==
    /\ stage \in {"tabulated", "reconstructed", "derived", "filtered"}
    /\ \E include_events \in BOOLEAN :
        csv' = [called |-> TRUE, include_events |-> include_events,
                returned |-> export_to_csv(df, include_events)]
    /\ arg' = CallerTable(df, DropColumns(df, {"events", "final_cart"}))
    /\ stage' = "exported"
    /\ UNCHANGED <<sessions, df, signals, result, events, metrics, ts, epoch>>

NextPrep ==
    \/ SessionsToDataframe
    \/ ReconstructGroups
    \/ CreateDerivedVariables
    \/ FilterSessions
    \/ ExportToCsv

SpecPrep == InitPrep /\ [][NextPrep]_vars

----------------------------------------------------------------------------
(* reconstruct_group applied to one signal bundle *)

GroupFromEventValues == {None, Some(2), Some(7)}

(* low-variety ids, one high-variety-exclusive id, one id outside the catalog *)
ProductIds == LOW_VARIETY_PRODUCTS \cup {3, 16}

GalleryTimes == {None, Some(0), Some(1000)}

ScrollTimes ==
    {None, Some(500), Some(2500), Some(2999), Some(3000), Some(3999), Some(4000), Some(7000), Some(7001)}

(* the bundle of a scan that counted ar events, saw the products and recorded *)
(* the two timestamps; reconstruct_group accepts any dict of this shape        *)
Bundle(gfe, ar, hv, products, gvt, sbt) ==
    ScrollTiming(
        [has_ar_events |-> ar > 0,
         ar_event_count |-> ar,
         has_high_variety_exclusive |-> hv,
         high_variety_exclusive_products |-> products \cap HIGH_VARIETY_EXCLUSIVE,
         unique_products_viewed |-> products,
         scroll_time_after_gallery |-> None,
         gallery_view_time |-> gvt,
         scroll_to_bottom_time |-> sbt,
         group_from_event |-> gfe])

SignalBundles ==
    {Bundle(gfe, ar, hv, products, gvt, sbt) :
        gfe \in GroupFromEventValues, ar \in {0, 2}, hv \in BOOLEAN,
        products \in SUBSET ProductIds, gvt \in GalleryTimes, sbt \in ScrollTimes}

InitCascade ==
    /\ sessions = <<>>
    /\ df = EmptyDataFrame
    /\ stage = "signals"
    /\ signals \in SignalBundles
    /\ result = NoResult
    /\ events = None
    /\ metrics = NoMetrics
    /\ ts = NullTs
    /\ epoch = NoEpoch
    /\ csv = NoCsv
    /\ arg = EmptyDataFrame

ReconstructGroup ==
    /\ stage = "signals"
    /\ result' = reconstruct_group(signals)
    /\ stage' = "returned"
    /\ UNCHANGED <<sessions, df, signals, events, metrics, ts, epoch, csv, arg>>

NextCascade == ReconstructGroup

SpecCascade == InitCascade /\ [][NextCascade]_vars

----------------------------------------------------------------------------
(* get_reconstruction_signals and extract_event_metrics applied to one      *)
(* event list, in the order of the pipeline                                 *)

MaxScan == 3

(* events whose fields are absent or of their documented type *)
TypedEvents ==
    {Ev("view_page", Some(t), TextVal("gallery"), None) : t \in {0, 1000, 4000}}
    \cup {Ev("view_page", Some(t), TextVal("detail"), None) : t \in {1000, 4000}}
    \cup {Ev("view_page", Some(4000), TextVal("cart"), None)}
    \cup {Ev("scroll_to_bottom", Some(t), NoVal, None) : t \in {2000, 9000}}
    \cup {Ev("view", Some(500), p, None) :
            p \in {IntVal(3), DigitsVal(<<1, 2>>), TextVal("abc")}}
    \cup {Ev("cart_add_gallery", Some(600), IntVal(6), None),
          Ev("cart_remove", Some(700), IntVal(3), None)}
    \cup {Ev("ar_start", Some(800), NoVal, None)}
    \cup {ArEnd(Some(900), Some(5000), Some(2), Some(1)),
          ArEnd(Some(900), Some(7000), Some(0), Some(3)),
          ArEnd(Some(900), Some(0), Some(1), Some(0))}
    \cup {Ev("group_assigned", Some(100), NoVal, Some(2))}

(* events with a null or missing field *)
NullableEvents ==
    {Ev("view_page", t, TextVal("gallery"), None) : t \in {Some(0), None}}
    \cup {Ev("view_page", t, p, None) : t \in {Some(1000), None}, p \in {TextVal("detail"), NoVal}}
    \cup {Ev("scroll_to_bottom", t, NoVal, None) : t \in {Some(2000), None}}
    \cup {Ev("view", None, NoVal, None), Ev("cart_remove", Some(700), NoVal, None)}
    \cup {Ev("", Some(0), NoVal, None), Ev("group_assigned", Some(100), NoVal, None)}
    \cup {ArEnd(Some(900), d, r, z) :
            d \in {Some(5000), None}, r \in {Some(2), None}, z \in {Some(1), None}}

EventInputs(pool) == {None} \cup {Some(l) : l \in UNION {[1..n -> pool] : n \in 0..MaxScan}}

InitMetrics ==
    /\ sessions = <<>>
    /\ df = EmptyDataFrame
    /\ stage = "events"
    /\ signals = EmptySignals
    /\ result = NoResult
    /\ events \in EventInputs(TypedEvents)
    /\ metrics = NoMetrics
    /\ ts = NullTs
    /\ epoch = NoEpoch
    /\ csv = NoCsv
    /\ arg = EmptyDataFrame

InitNullable ==
    /\ sessions = <<>>
    /\ df = EmptyDataFrame
    /\ stage = "events"
    /\ signals = EmptySignals
    /\ result = NoResult
    /\ events \in EventInputs(NullableEvents)
    /\ metrics = NoMetrics
    /\ ts = NullTs
    /\ epoch = NoEpoch
    /\ csv = NoCsv
    /\ arg = EmptyDataFrame

GetReconstructionSignals ==
    /\ stage = "events"
    /\ signals' = get_reconstruction_signals(events)
    /\ stage' = "scanned"
    /\ UNCHANGED <<sessions, df, result, events, metrics, ts, epoch, csv, arg>>

ExtractEventMetrics ==
    /\ stage = "scanned"
    /\ metrics' = extract_event_metrics(events)
    /\ stage' = "measured"
    /\ UNCHANGED <<sessions, df, result, events, signals, ts, epoch, csv, arg>>

NextMetrics == GetReconstructionSignals \/ ExtractEventMetrics

SpecMetrics == InitMetrics /\ [][NextMetrics]_vars

SpecNullable == InitNullable /\ [][NextMetrics]_vars

----------------------------------------------------------------------------
(* The loop body of reconstruct_groups on one event list: the scan, then *)
(* the cascade on the signals of the scan                                *)

(* group_assigned events with and without a value, page views and scrolls *)
(* in both orders, a high-variety product and an AR event                 *)
CascadeEvents ==
    {Ev("group_assigned", Some(100), NoVal, v) : v \in {None, Some(2), Some(7)}}
    \cup {Ev("view_page", Some(t), TextVal("gallery"), None) : t \in {1000, 4000}}
    \cup {Ev("scroll_to_bottom", Some(t), NoVal, None) : t \in {2000, 9000}}
    \cup {Ev("view", Some(500), IntVal(3), None), Ev("ar_start", Some(800), NoVal, None)}

InitRows ==
    /\ sessions = <<>>
    /\ df = EmptyDataFrame
    /\ stage = "events"
    /\ signals = EmptySignals
    /\ result = NoResult
    /\ events \in EventInputs(CascadeEvents)
    /\ metrics = NoMetrics
    /\ ts = NullTs
    /\ epoch = NoEpoch
    /\ csv = NoCsv
    /\ arg = EmptyDataFrame

ReconstructScanned ==
    /\ stage = "scanned"
    /\ result' = reconstruct_group(signals)
    /\ stage' = "grouped"
    /\ UNCHANGED <<sessions, df, signals, events, metrics, ts, epoch, csv, arg>>

NextRows == GetReconstructionSignals \/ ReconstructScanned

SpecRows == InitRows /\ [][NextRows]_vars

(* event lists that name each product of a set once, in ascending order *)

RECURSIVE SeqOfSet(_)
SeqOfSet(S) ==
    IF S = {}
    THEN <<>>
    ELSE LET x == CHOOSE x \in S : \A y \in S : x <= y
         IN  <<x>> \o SeqOfSet(S \ {x})

(* the low-variety catalog, two high-variety-exclusive ids, one id outside *)
(* the catalog                                                            *)
CatalogSample == LOW_VARIETY_PRODUCTS \cup {2, 15, 16}

ProductEvents(e, S, ar) ==
    [i \in 1..Cardinality(S) |-> Ev(e, Some(1000 * i), IntVal(SeqOfSet(S)[i]), None)]
    \o (IF ar THEN <<Ev("ar_start", Some(20000), NoVal, None)>> ELSE <<>>)

InitCatalog ==
    /\ sessions = <<>>
    /\ df = EmptyDataFrame
    /\ stage = "events"
    /\ signals = EmptySignals
    /\ result = NoResult
    /\ events \in {Some(ProductEvents(e, S, ar)) :
                    e \in {"view", "cart_add_detail"}, S \in SUBSET CatalogSample,
                    ar \in BOOLEAN}
    /\ metrics = NoMetrics
    /\ ts = NullTs
    /\ epoch = NoEpoch
    /\ csv = NoCsv
    /\ arg = EmptyDataFrame

SpecCatalog == InitCatalog /\ [][NextRows]_vars

----------------------------------------------------------------------------
(* firestore_timestamp_to_datetime applied to one timestamp value *)

SecondsFields == {Absent, Null, Text, Num(0), Num(1)}

NanosecondsFields == {Absent, Null, Text, Num(0), Num(500000000)}

TimestampValues ==
    {NullTs, OtherTs}
    \cup {NativeTs(sec, nano) : sec \in {0, 1}, nano \in {0, 500000000}}
    \cup {DictTs(s1, s2, n1, n2) : s1 \in SecondsFields, s2 \in SecondsFields,
                                   n1 \in NanosecondsFields, n2 \in NanosecondsFields}

InitTimestamp ==
    /\ sessions = <<>>
    /\ df = EmptyDataFrame
    /\ stage = "timestamp"
    /\ signals = EmptySignals
    /\ result = NoResult
    /\ events = None
    /\ metrics = NoMetrics
    /\ ts \in TimestampValues
    /\ epoch = NoEpoch
    /\ csv = NoCsv
    /\ arg = EmptyDataFrame

FirestoreTimestampToDatetime ==
    /\ stage = "timestamp"
    /\ epoch' = firestore_timestamp_to_datetime(ts)
    /\ stage' = "converted"
    /\ UNCHANGED <<sessions, df, signals, result, events, metrics, ts, csv, arg>>

NextTimestamp == FirestoreTimestampToDatetime

SpecTimestamp == InitTimestamp /\ [][NextTimestamp]_vars

----------------------------------------------------------------------------
(* Properties of the pipeline (Spec) *)

(* reconstruct_groups has written its columns into the table *)
Reconstructed == "reconstruction_method" \in df.columns

\* C1: a session with an explicit, non-null group keeps it through
\* sessions_to_dataframe and reconstruct_groups: group_final is that group,
\* the method is "original" and the confidence 1.0, whatever the events are.
C1_ExplicitLabelPrecedence ==
    Reconstructed =>
        \A i \in DOMAIN sessions :
            notna(sessions[i].group) =>
                /\ df.rows[i].group_final = sessions[i].group
                /\ df.rows[i].reconstruction_method = "original"
                /\ df.rows[i].reconstruction_confidence = 10

(* an explicit group 1 on a session whose events reconstruct to group 4 *)
C1_Witness ==
    /\ Reconstructed
    /\ \E i \in DOMAIN sessions :
        /\ sessions[i].group = Some(1)
        /\ df.rows[i].group_reconstructed = Some(4)
        /\ df.rows[i].group_final = Some(1)

\* C2: a row whose group is absent or null gets group_final equal to
\* group_reconstructed, and the method and confidence that reconstruct_group
\* returns for the signals of the row.
C2_FallbackToReconstruction ==
    Reconstructed =>
        \A i \in DOMAIN df.rows :
            isna(df.rows[i].group) =>
                LET r == reconstruct_group(df.rows[i].reconstruction_signals)
                IN  /\ df.rows[i].group_final = df.rows[i].group_reconstructed
                    /\ df.rows[i].group_reconstructed = r[1]
                    /\ df.rows[i].reconstruction_method = r[2]
                    /\ df.rows[i].reconstruction_confidence = r[3]

(* a row without a group whose events reconstruct to group 1 by scroll time *)
C2_Witness ==
    /\ Reconstructed
    /\ \E i \in DOMAIN df.rows :
        /\ isna(df.rows[i].group)
        /\ df.rows[i].group_final = Some(1)
        /\ df.rows[i].reconstruction_method = "fast_scroll_time"
        /\ df.rows[i].reconstruction_confidence = 6

\* C3: in every derived row (variety, ar_enabled) is the image of
\* group_final: 1 -> (low, false), 2 -> (low, true), 3 -> (high, false),
\* 4 -> (high, true), anything else (absent included) -> both absent.
C3_VarietyFromGroupFinal ==
    (stage = "derived" /\ Reconstructed) =>
        \A i \in DOMAIN df.rows :
            LET g == df.rows[i].group_final
                pair == <<df.rows[i].variety, df.rows[i].ar_enabled>>
            IN  /\ g = Some(1) => pair = <<Some("low"), Some(FALSE)>>
                /\ g = Some(2) => pair = <<Some("low"), Some(TRUE)>>
                /\ g = Some(3) => pair = <<Some("high"), Some(FALSE)>>
                /\ g = Some(4) => pair = <<Some("high"), Some(TRUE)>>
                /\ g \notin {Some(1), Some(2), Some(3), Some(4)} => pair = <<None, None>>

----------------------------------------------------------------------------
(* Properties of reconstruct_group (SpecCascade) *)

Returned == stage = "returned"

ProductCount == Cardinality(signals.unique_products_viewed)

\* C4 as stated: every bundle with has_ar_events and
\* has_high_variety_exclusive yields (4, "ar_events + high_variety_products",
\* 1.0), the group_from_event rule included.
C4_AsStated ==
    (Returned /\ signals.has_ar_events /\ signals.has_high_variety_exclusive) =>
        result = <<Some(4), "ar_events + high_variety_products", 10>>

\* C4 amended: every bundle without group_from_event, with has_ar_events and
\* has_high_variety_exclusive, yields (4, "ar_events + high_variety_products",
\* 1.0); the product-count and scroll-time rules do not change it.
C4_ArAndHighVariety ==
    (/\ Returned
     /\ signals.group_from_event = None
     /\ signals.has_ar_events
     /\ signals.has_high_variety_exclusive) =>
        result = <<Some(4), "ar_events + high_variety_products", 10>>

(* more than 5 products and a fast scroll as well, and the answer is group 4 *)
C4_Witness ==
    /\ Returned
    /\ signals.group_from_event = None
    /\ signals.has_ar_events
    /\ signals.has_high_variety_exclusive
    /\ ProductCount > 5
    /\ signals.scroll_time_after_gallery = Some([num |-> 500, den |-> 1000])
    /\ result[1] = Some(4)

\* C5 as stated: a present group_from_event is returned verbatim with method
\* "explicit_event" and confidence 1.0.
C5_AsStated ==
    (Returned /\ signals.group_from_event # None) =>
        result = <<signals.group_from_event, "explicit_event", 10>>

\* C5 amended: a present group_from_event is returned verbatim with method
\* "group_assigned_event" and confidence 1.0, before any other rule.
C5_GroupFromEventFirst ==
    (Returned /\ signals.group_from_event # None) =>
        result = <<signals.group_from_event, "group_assigned_event", 10>>

(* group_from_event 7 wins over AR events and an exclusive product *)
C5_Witness ==
    /\ Returned
    /\ signals.group_from_event = Some(7)
    /\ signals.has_ar_events
    /\ signals.has_high_variety_exclusive
    /\ result[1] = Some(7)

\* C6: without group_from_event, an exclusive product and no AR events yield
\* (3, "high_variety_products + no_ar", 1.0) whatever the product count and
\* the scroll time are.
C6_HighVarietyNoAr ==
    (/\ Returned
     /\ signals.group_from_event = None
     /\ signals.has_high_variety_exclusive
     /\ ~signals.has_ar_events) =>
        result = <<Some(3), "high_variety_products + no_ar", 10>>

(* the scroll came 2.5 s after the gallery view, which alone means group 1 *)
C6_Witness ==
    /\ Returned
    /\ signals.group_from_event = None
    /\ signals.has_high_variety_exclusive
    /\ ~signals.has_ar_events
    /\ signals.unique_products_viewed = {3}
    /\ signals.gallery_view_time = Some(0)
    /\ signals.scroll_to_bottom_time = Some(2500)
    /\ signals.scroll_time_after_gallery = Some([num |-> 2500, den |-> 1000])
    /\ result[1] = Some(3)

\* C7: without group_from_event, AR events and no exclusive product yield
\* group 2, with confidence 0.9 when a product was viewed and 0.7 when none.
C7_ArLowVariety ==
    (/\ Returned
     /\ signals.group_from_event = None
     /\ signals.has_ar_events
     /\ ~signals.has_high_variety_exclusive) =>
        /\ result[1] = Some(2)
        /\ signals.unique_products_viewed # {} => result[3] = 9
        /\ signals.unique_products_viewed = {} => result[3] = 7

(* AR events alone, no product viewed: confidence 0.7 *)
C7_Witness ==
    /\ Returned
    /\ signals.group_from_event = None
    /\ signals.has_ar_events
    /\ ~signals.has_high_variety_exclusive
    /\ signals.unique_products_viewed = {}
    /\ result[3] = 7

\* C8: without group_from_event, AR events and exclusive product, more than
\* 5 distinct products yield group 3 with confidence 0.8 whatever the scroll
\* time is; with 5 or fewer the product-count rule does not fire.
C8_ProductCount ==
    (/\ Returned
     /\ signals.group_from_event = None
     /\ ~signals.has_ar_events
     /\ ~signals.has_high_variety_exclusive) =>
        /\ ProductCount > 5 =>
            result = <<Some(3), "product_count_exceeds_5", 8>>
        /\ ProductCount <= 5 => result[2] # "product_count_exceeds_5"

(* six products and a fast scroll: the product-count rule wins *)
C8_Witness ==
    /\ Returned
    /\ signals.group_from_event = None
    /\ ~signals.has_ar_events
    /\ ~signals.has_high_variety_exclusive
    /\ ProductCount = 6
    /\ signals.scroll_time_after_gallery = Some([num |-> 500, den |-> 1000])
    /\ result[3] = 8

(* the bundle reaches the scroll-time rule *)
ReachesScrollRule ==
    /\ signals.group_from_event = None
    /\ ~signals.has_ar_events
    /\ ~signals.has_high_variety_exclusive
    /\ ProductCount <= 5

\* C9: a bundle that reaches the scroll-time rule with a scroll time q gets
\* group 1, confidence 0.6 when q < 3.0, group 3, confidence 0.5 when
\* q > 6.0, and no group when 3.0 <= q <= 6.0.
C9_ScrollTime ==
    (Returned /\ ReachesScrollRule /\ signals.scroll_time_after_gallery # None) =>
        LET q == Get(signals.scroll_time_after_gallery)
        IN  /\ q.num < 3 * q.den => (result[1] = Some(1) /\ result[3] = 6)
            /\ q.num > 6 * q.den => (result[1] = Some(3) /\ result[3] = 5)
            /\ (3 * q.den <= q.num /\ q.num <= 6 * q.den) => result[1] = None

(* exactly 3.0 s: no group *)
C9_Witness ==
    /\ Returned
    /\ ReachesScrollRule
    /\ signals.scroll_time_after_gallery = Some([num |-> 3000, den |-> 1000])
    /\ result[1] = None

(* none of the rules 1-6 matches *)
NoRuleMatches ==
    /\ ReachesScrollRule
    /\ \/ signals.scroll_time_after_gallery = None
       \/ LET q == Get(signals.scroll_time_after_gallery)
          IN  3 * q.den <= q.num /\ q.num <= 6 * q.den

\* C10: reconstruct_group returns (absent, "insufficient_signals", 0.0)
\* exactly when no rule matches; every other bundle gets a group and a
\* confidence above 0.
C10_InsufficientSignals ==
    Returned =>
        /\ (result = <<None, "insufficient_signals", 0>>) <=> NoRuleMatches
        /\ ~NoRuleMatches => (result[1] # None /\ result[3] > 0)

(* a scroll 6.0 s after the gallery view and nothing else: insufficient *)
C10_Witness ==
    /\ Returned
    /\ NoRuleMatches
    /\ signals.scroll_time_after_gallery = Some([num |-> 6000, den |-> 1000])
    /\ result = <<None, "insufficient_signals", 0>>

----------------------------------------------------------------------------
(* Properties of the two scans of one event list (SpecMetrics, SpecNullable) *)

Scanned == stage \in {"scanned", "measured"}

Measured == stage = "measured"

(* the list handed to the two functions, empty for None *)
Evs == IF events = None THEN <<>> ELSE Get(events)

IsArEnd(ev) == ev.e = "ar_end"

IsViewPage(ev) == ev.e = "view_page"

IsGalleryView(ev) == ev.e = "view_page" /\ ev.p = TextVal("gallery")

IsScroll(ev) == ev.e = "scroll_to_bottom"

ArEnds == SelectSeq(Evs, IsArEnd)

ViewPages == SelectSeq(Evs, IsViewPage)

RECURSIVE SumD(_)
SumD(evs) == IF evs = <<>> THEN 0 ELSE Get(Head(evs).d) + SumD(Tail(evs))

RECURSIVE SumRotations(_)
SumRotations(evs) == IF evs = <<>> THEN 0 ELSE Get(Head(evs).rotations) + SumRotations(Tail(evs))

RECURSIVE SumZooms(_)
SumZooms(evs) == IF evs = <<>> THEN 0 ELSE Get(Head(evs).zooms) + SumZooms(Tail(evs))

(* a = b on fractions *)
FracEq(a, b) == a.num * b.den = b.num * a.den

\* C12: ar_session_count is the number of ar_end events, total_ar_time_sec
\* the sum of their d / 1000 (a missing d counting as 0), total_ar_rotations
\* and total_ar_zooms the sums of their rotations and zooms (absent counting
\* as 0); no other event changes these four values.
C12_ArTotals ==
    Measured =>
        /\ ~metrics.raised
        /\ metrics.ar_session_count = Len(ArEnds)
        /\ FracEq(metrics.total_ar_time_sec, Frac(SumD(ArEnds), 1000))
        /\ metrics.total_ar_rotations = SumRotations(ArEnds)
        /\ metrics.total_ar_zooms = SumZooms(ArEnds)

(* ar_start, then ar_end events of 5000 ms and 7000 ms: 12 s in 2 sessions *)
C12_Witness ==
    /\ Measured
    /\ Len(Evs) = 3
    /\ Evs[1].e = "ar_start"
    /\ Evs[2] = ArEnd(Some(900), Some(5000), Some(2), Some(1))
    /\ Evs[3] = ArEnd(Some(900), Some(7000), Some(0), Some(3))
    /\ metrics.ar_session_count = 2
    /\ metrics.total_ar_time_sec = Frac(12000, 1000)
    /\ metrics.total_ar_rotations = 2
    /\ metrics.total_ar_zooms = 4

\* C13: avg_ar_duration_sec is total_ar_time_sec / ar_session_count whenever
\* ar_session_count >= 1 (an ar_end with d = 0 or no d is one session of
\* duration 0), and it is absent if and only if ar_session_count = 0.
C13_AvgArDuration ==
    Measured =>
        /\ ~metrics.raised
        /\ (metrics.avg_ar_duration_sec = None) <=> (metrics.ar_session_count = 0)
        /\ metrics.ar_session_count >= 1 =>
            /\ metrics.avg_ar_duration_sec # None
            /\ FracEq(Get(metrics.avg_ar_duration_sec),
                      Frac(metrics.total_ar_time_sec.num,
                           metrics.total_ar_time_sec.den * metrics.ar_session_count))

(* the integer product ids of the events of the given types *)
ProductsOf(types) ==
    {Get(IntCoerce(Evs[i].p)) :
        i \in {j \in DOMAIN Evs :
                /\ Evs[j].e \in types
                /\ Evs[j].p.tag \in {"int", "digits"}
                /\ Truthy(Evs[j].p)}}

\* C14: the metric unique_products_viewed is the number of distinct integer
\* product ids of the view, cart_add_detail, cart_add_gallery and
\* cart_remove events, a non-integer id being skipped; it equals the size of
\* the unique_products_viewed set of get_reconstruction_signals.
C14_UniqueProducts ==
    Measured =>
        /\ ~metrics.raised
        /\ metrics.unique_products_viewed =
            Cardinality(ProductsOf({"view", "cart_add_detail", "cart_add_gallery", "cart_remove"}))
        /\ metrics.unique_products_viewed = Cardinality(signals.unique_products_viewed)

(* the time between the k-th view_page event and the next one, when the k-th is of `page` *)
RECURSIVE DwellMs(_, _)
DwellMs(vps, page) ==
    IF Len(vps) < 2 THEN 0
    ELSE (IF vps[1].p = TextVal(page) THEN Get(vps[2].t) - Get(vps[1].t) ELSE 0)
         + DwellMs(Tail(vps), page)

\* C15 as stated: time_on_gallery_sec (time_on_detail_sec) is 1/1000 of the
\* sum, over the gallery (detail) view_page events that a later view_page
\* follows, of the time to the next view_page; absent when the sum is zero.
C15_AsStated ==
    Measured =>
        /\ ~metrics.raised
        /\ \A c \in {<<"gallery", metrics.time_on_gallery_sec>>,
                     <<"detail", metrics.time_on_detail_sec>>} :
            LET ms == DwellMs(ViewPages, c[1])
            IN  IF ms = 0 THEN c[2] = None
                ELSE c[2] # None /\ FracEq(Get(c[2]), Frac(ms, 1000))

\* C15 amended: the same sum, reported as sum / 1000 seconds when it is
\* positive and absent when it is zero or negative.
C15_DwellTime ==
    Measured =>
        /\ ~metrics.raised
        /\ \A c \in {<<"gallery", metrics.time_on_gallery_sec>>,
                     <<"detail", metrics.time_on_detail_sec>>} :
            LET ms == DwellMs(ViewPages, c[1])
            IN  IF ms <= 0 THEN c[2] = None
                ELSE c[2] # None /\ FracEq(Get(c[2]), Frac(ms, 1000))

(* gallery at 0, detail at 1000, another page at 4000: 1 s and 3 s *)
C15_Witness ==
    /\ Measured
    /\ Len(ViewPages) = 3
    /\ ViewPages[1] = Ev("view_page", Some(0), TextVal("gallery"), None)
    /\ ViewPages[2] = Ev("view_page", Some(1000), TextVal("detail"), None)
    /\ ViewPages[3] = Ev("view_page", Some(4000), TextVal("cart"), None)
    /\ metrics.time_on_gallery_sec = Some(Frac(1000, 1000))
    /\ metrics.time_on_detail_sec = Some(Frac(3000, 1000))

(* the timestamp of the first event of a kind, None when there is none *)
FirstTime(evs) == IF evs = <<>> THEN None ELSE evs[1].t

\* C16: gallery_view_time is the timestamp of the first gallery view_page
\* event and scroll_to_bottom_time that of the first scroll_to_bottom event;
\* a later event of the same kind does not overwrite it.
C16_FirstOccurrenceWins ==
    Scanned =>
        /\ signals.gallery_view_time = FirstTime(SelectSeq(Evs, IsGalleryView))
        /\ signals.scroll_to_bottom_time = FirstTime(SelectSeq(Evs, IsScroll))

C19_NeverRaises ==
    Measured => ~metrics.raised

----------------------------------------------------------------------------
(* Properties of firestore_timestamp_to_datetime (SpecTimestamp) *)

Converted == stage = "converted"

\* C18: for a timestamp value of any shape the conversion raises nothing; it
\* returns None for null and for a value that is neither a mapping nor a
\* native timestamp, and a number of epoch seconds for a native timestamp and
\* for a mapping whose seconds and nanoseconds are absent or numbers.
C18_NeverRaises ==
    Converted =>
        /\ ~epoch.raised
        /\ ts.kind \in {"null", "other"} => epoch.value = None
        /\ ts.kind = "native" => epoch.value # None
        /\ (ts.kind = "dict"
            /\ DictGet(ts._seconds, DictGet(ts.seconds, Num(0))).k = "num"
            /\ DictGet(ts._nanoseconds, DictGet(ts.nanoseconds, Num(0))).k = "num")
           => epoch.value # None

----------------------------------------------------------------------------
(* Properties of the derived table (Spec, SpecTimes) *)

Derived == stage = "derived"

\* C11: a row whose event list is empty or null gets ar_session_count 0,
\* unique_products_viewed 0, avg_ar_duration_sec None, scrolled_to_bottom
\* False, every other counter 0 and both dwell times None; and when its group
\* is None, reconstruct_groups gives it group_reconstructed None, group_final
\* None, reconstruction_method "insufficient_signals" and confidence 0.
C11_EmptyEventList ==
    \A i \in DOMAIN df.rows :
        NotEvents(df.rows[i].events) =>
            /\ Derived =>
                /\ df.rows[i].ar_session_count = 0
                /\ df.rows[i].unique_products_viewed = 0
                /\ df.rows[i].avg_ar_duration_sec = None
                /\ df.rows[i].scrolled_to_bottom = FALSE
                /\ df.rows[i].cart_additions = 0
                /\ df.rows[i].cart_removals = 0
                /\ df.rows[i].page_views = 0
                /\ df.rows[i].total_ar_rotations = 0
                /\ df.rows[i].total_ar_zooms = 0
                /\ df.rows[i].total_ar_time_sec.num = 0
                /\ df.rows[i].time_on_gallery_sec = None
                /\ df.rows[i].time_on_detail_sec = None
            /\ (Reconstructed /\ df.rows[i].group = None) =>
                /\ df.rows[i].group_reconstructed = None
                /\ df.rows[i].group_final = None
                /\ df.rows[i].reconstruction_method = "insufficient_signals"
                /\ df.rows[i].reconstruction_confidence = 0

(* a session with a null event list and no group, reconstructed and derived *)
C11_Witness ==
    /\ Derived
    /\ Reconstructed
    /\ Len(sessions) = 1
    /\ sessions[1].events = None
    /\ sessions[1].group = None
    /\ df.rows[1].group = None
    /\ df.rows[1].ar_session_count = 0
    /\ df.rows[1].avg_ar_duration_sec = None
    /\ df.rows[1].reconstruction_method = "insufficient_signals"

(* the conversion of a session timestamp returns a time *)
TimeSet(t) ==
    /\ ~firestore_timestamp_to_datetime(t).raised
    /\ firestore_timestamp_to_datetime(t).value # None

\* C20: in the derived row of a session whose started_at is set and whose
\* completed_at is absent, session_duration_sec is None; in the derived row
\* of a session whose survey is absent or has no submitted_at,
\* time_to_survey_sec is None.
C20_AbsentDurations ==
    Derived =>
        \A i \in DOMAIN df.rows :
            /\ (TimeSet(sessions[i].started_at) /\ sessions[i].completed_at = NullTs)
                => df.rows[i].session_duration_sec = None
            /\ SurveySubmittedAt(sessions[i]) = NullTs
                => df.rows[i].time_to_survey_sec = None

(* started one second after the epoch, never completed, a survey without *)
(* submitted_at                                                          *)
C20_Witness ==
    /\ Derived
    /\ Len(sessions) = 1
    /\ sessions[1].started_at = DictTs(Absent, Num(1), Absent, Absent)
    /\ sessions[1].completed_at = NullTs
    /\ sessions[1].survey = Some([submitted_at |-> NullTs])
    /\ df.rows[1].started_at = Some(NanosPerSecond)
    /\ df.rows[1].completed_at = None
    /\ df.rows[1].session_duration_sec = None
    /\ df.rows[1].time_to_survey_sec = None

----------------------------------------------------------------------------
(* Properties of the tables of the pipeline (Spec) *)

\* C21: after reconstruct_groups the group_reconstructed of every row is the
\* group that reconstruct_group returns for the signals scanned from the
\* events of that session, whatever group and group_reconstructed the
\* session record stores.
C21_RecomputedFromEvents ==
    Reconstructed =>
        \A i \in DOMAIN sessions :
            df.rows[i].group_reconstructed =
                reconstruct_group(
                    get_reconstruction_signals(EventsOrEmpty(sessions[i].events)))[1]

(* a session that stores group 2 and group_reconstructed 1 while its events *)
(* (a view of product 3) reconstruct to group 3                             *)
C21_Witness ==
    /\ Reconstructed
    /\ Len(sessions) = 1
    /\ sessions[1].group = Some(2)
    /\ sessions[1].group_reconstructed = Some(1)
    /\ sessions[1].events = Some(<<Ev("view", Some(1000), IntVal(3), None)>>)
    /\ df.rows[1].group_reconstructed = Some(3)
    /\ df.rows[1].group_final = Some(2)


\* C22: the table of the Monitoring page is the one that a second run of
\* sessions_to_dataframe, reconstruct_groups and create_derived_variables on
\* the same session records builds; reconstruct_groups applied to its own
\* output returns that output, and so does create_derived_variables.
C22_RepeatableAndIdempotent ==
    /\ Reconstructed => reconstruct_groups(df) = df
    /\ Derived => create_derived_variables(df) = df
    /\ (Derived /\ Reconstructed) =>
        \E fill \in BOOLEAN :
            df = create_derived_variables(
                    reconstruct_groups(sessions_to_dataframe(sessions, fill)))

(* a derived row without a group that was reconstructed to group 1 with *)
(* confidence 0.6: a second call finds group_final and the method set   *)
C22_Witness ==
    /\ Derived
    /\ Reconstructed
    /\ Len(df.rows) = 1
    /\ df.rows[1].group = None
    /\ df.rows[1].group_final = Some(1)
    /\ df.rows[1].reconstruction_method = "fast_scroll_time"
    /\ df.rows[1].variety = None
    /\ reconstruct_groups(df).rows[1].reconstruction_method = "fast_scroll_time"


\* C23: create_derived_variables raises nothing on a table that lacks a
\* column it reads; on the column-less table that sessions_to_dataframe
\* returns for an empty session list it returns a table whose derived
\* columns are empty.
C23_MissingColumnsTolerated ==
    sessions = <<>> =>
        /\ stage # "raised"
        /\ stage \in {"tabulated", "reconstructed", "derived"} => df.rows = <<>>
        /\ Derived => {"variety", "ar_enabled", "session_duration_sec"} \subseteq df.columns

----------------------------------------------------------------------------
(* Properties of filter_sessions and export_to_csv (SpecPrep) *)

Exported == stage = "exported"

\* C24: export_to_csv with include_events False returns the table without
\* the columns events and final_cart, with include_events True the table with
\* every column; in both cases there is one line per row, in the order of
\* the rows, and every remaining field is the text of the cell of the table;
\* a table that has no such columns is exported as well.
C24_ExportDropsEventColumns ==
    Exported =>
        LET out == csv.returned
            dropped == IF csv.include_events THEN {} ELSE {"events", "final_cart"}
        IN  /\ out.header = df.columns \ dropped
            /\ Len(out.lines) = Len(df.rows)
            /\ \A i \in DOMAIN df.rows :
                /\ DOMAIN out.lines[i] = DOMAIN df.rows[i] \ dropped
                /\ \A c \in DOMAIN out.lines[i] : out.lines[i][c] = CsvField(df.rows[i][c])

(* a derived table of two rows, the second a debug session, exported *)
(* without the two columns                                           *)
C24_Witness ==
    /\ Exported
    /\ ~csv.include_events
    /\ Len(df.rows) = 2
    /\ {"events", "final_cart", "variety"} \subseteq df.columns
    /\ ~df.rows[1].debug_mode
    /\ df.rows[2].debug_mode
    /\ "events" \notin csv.returned.header
    /\ "final_cart" \notin csv.returned.header
    /\ csv.returned.lines[1].debug_mode = "FALSE"
    /\ csv.returned.lines[2].debug_mode = "TRUE"
    /\ csv.returned.lines[1].variety = ToString(Some("low"))

----------------------------------------------------------------------------
(* Properties of the scan and the cascade on one event list (SpecRows, *)
(* SpecCatalog)                                                        *)

RowScanned == stage \in {"scanned", "grouped"}

Grouped == stage = "grouped"

IsValuedAssignment(ev) == ev.e = "group_assigned" /\ ev.v # None

ValuedAssignments == SelectSeq(Evs, IsValuedAssignment)

\* C26: after the scan group_from_event is the v of the last group_assigned
\* event that carries a value, and it is None only if no group_assigned
\* event of the list carries a value: a later group_assigned event without v
\* does not remove the value of an earlier one.
C26_LastAssignedValueKept ==
    RowScanned =>
        signals.group_from_event =
            IF ValuedAssignments = <<>>
            THEN None
            ELSE ValuedAssignments[Len(ValuedAssignments)].v

\* C28: the group returned for the signals of an event list is None or one
\* of 1, 2, 3, 4, and the confidence lies between 0 and 1, also when a
\* group_assigned event carries a value outside 1..4.
C28_ValidGroupAndConfidence ==
    Grouped =>
        /\ result[1] \in {None} \cup {Some(g) : g \in 1..4}
        /\ result[3] \in 0..10

NonDecreasing(evs) ==
    \A i \in 1..(Len(evs) - 1) : Get(evs[i].t) <= Get(evs[i + 1].t)

\* C29: on an event list with non-decreasing timestamps
\* scroll_time_after_gallery is None or not negative, and the cascade
\* returns the method fast_scroll_time only for a scroll time from 0 to
\* below 3 seconds.
C29_NoNegativeScrollTime ==
    (Grouped /\ NonDecreasing(Evs)) =>
        /\ signals.scroll_time_after_gallery # None
            => Get(signals.scroll_time_after_gallery).num >= 0
        /\ result[2] = "fast_scroll_time"
            => /\ signals.scroll_time_after_gallery # None
               /\ Get(signals.scroll_time_after_gallery).num >= 0
               /\ FracLess(Get(signals.scroll_time_after_gallery), 3)

(* every product id of the list belongs to the study catalog 1..15 *)
CatalogOnly(evs) ==
    \A i \in DOMAIN evs : evs[i].p.tag = "int" => evs[i].p.val \in HIGH_VARIETY_PRODUCTS

\* C30: HIGH_VARIETY_EXCLUSIVE is HIGH_VARIETY_PRODUCTS without
\* LOW_VARIETY_PRODUCTS, and on an event list whose product ids all belong
\* to the catalog the cascade never returns product_count_exceeds_5.
C30_ProductCountUnreachable ==
    /\ HIGH_VARIETY_EXCLUSIVE = HIGH_VARIETY_PRODUCTS \ LOW_VARIETY_PRODUCTS
    /\ (Grouped /\ CatalogOnly(Evs)) => result[2] # "product_count_exceeds_5"

(* six catalog products, the five low-variety ones and product 2, viewed *)
(* without AR: group 3 by the high-variety rule                          *)
C30_Witness ==
    /\ Grouped
    /\ CatalogOnly(Evs)
    /\ signals.unique_products_viewed = LOW_VARIETY_PRODUCTS \cup {2}
    /\ Cardinality(signals.unique_products_viewed) > 5
    /\ result = <<Some(3), "high_variety_products + no_ar", 10>>

----------------------------------------------------------------------------
(* Properties of tables of several sessions (SpecPairs) *)

Tabulated == stage \in {"tabulated", "reconstructed", "derived"}

(* the table that the calls made so far build for one session alone *)
Alone(session, fill) ==
    LET t == sessions_to_dataframe(<<session>>, fill)
        r == IF Reconstructed THEN reconstruct_groups(t) ELSE t
    IN  IF Derived THEN create_derived_variables(r) ELSE r

\* C27: the table has one row per session record, in the order of the
\* records, and each row holds what the same calls produce for its session
\* alone: signals, reconstructed group, method, confidence, event metrics,
\* variety, ar_enabled and durations of a row do not depend on the other
\* sessions of the list.
C27_RowsIndependent ==
    Tabulated =>
        /\ Len(df.rows) = Len(sessions)
        /\ \E fill \in BOOLEAN :
            \A i \in DOMAIN sessions : df.rows[i] = Alone(sessions[i], fill).rows[1]

(* two sessions without a group: the first with an AR event and no end, *)
(* the second with a view of product 3, completed after one second      *)
C27_Witness ==
    /\ Derived
    /\ Reconstructed
    /\ Len(sessions) = 2
    /\ sessions[1].events = Some(<<Ev("ar_start", Some(1500), NoVal, None)>>)
    /\ sessions[2].events = Some(<<Ev("view", Some(1000), IntVal(3), None)>>)
    /\ df.rows[1].group_final = Some(2)
    /\ df.rows[1].reconstruction_method = "ar_events_only"
    /\ df.rows[1].session_duration_sec = None
    /\ df.rows[1].unique_products_viewed = 0
    /\ df.rows[2].group_final = Some(3)
    /\ df.rows[2].session_duration_sec = Some(Frac(NanosPerSecond, NanosPerSecond))
    /\ df.rows[2].unique_products_viewed = 1

====
